---------------------------- MODULE Spec2Model ----------------------------
(***************************************************************************)
(* ICvectorfields: the exported entry point _ICvectorfields_MoransI        *)
(* (src/src/RcppExports.cpp) and the native routine MoransI it forwards    *)
(* to.                                                                     *)
(*                                                                         *)
(* RcppExports.cpp holds the entry point, the registration table and the   *)
(* library initialiser; they are modelled from that file.  The body of     *)
(* MoransI is declared there (line 14) and called (line 21) but defined    *)
(* elsewhere in the package; it is modelled from spec.md, section 4.1 and  *)
(* section 7, over exact rationals (the spec's "real numbers").            *)
(*                                                                         *)
(* A call of the entry point is three steps: EnterCall (lines 15-20: the   *)
(* host dispatches through the registration table, BEGIN_RCPP opens the    *)
(* try block, the locals are constructed, among them the Rcpp::RNGScope),  *)
(* InvokeNative (line 21) and LeaveCall (lines 22-24: the locals are       *)
(* destroyed, among them the RNGScope, and END_RCPP either returns the     *)
(* result or turns the pending C++ exception into a host error).           *)
(***************************************************************************)
EXTENDS Integers, Sequences, FiniteSets, TLC

(***************************************************************************)
(* Bounds of the model.                                                    *)
(***************************************************************************)
\* Largest number of entries of an enumerated observation matrix, and the
\* largest row and column count of an enumerated weights matrix.
MaxN == 2
\* Scaling constants are drawn from -MaxScale..MaxScale without 0.
MaxScale == 2
\* Values the host's clock-derived seed can take (1..NSeeds).
NSeeds == 2
\* Call sites that may be inside the entry point at once.
NSites == 2

\* The entry point's parameter count (mat1SEXP, r1SEXP).
EntryArity == 2

Sites == 1..NSites
Seeds == 1..NSeeds
\* Values of the enumerated observation matrices.
ObsVals == {0, 1, 2}
\* Values of the enumerated weights matrices: binary contiguity.
WeightVals == {0, 1}
Scalars == ((0 - MaxScale)..MaxScale) \ {0}

(***************************************************************************)
(* Exact rational arithmetic: a rational is [n, d] in lowest terms, d > 0. *)
(***************************************************************************)
Abs(a) == IF a < 0 THEN 0 - a ELSE a

RECURSIVE GCD(_, _)
GCD(a, b) == IF b = 0 THEN a ELSE GCD(b, a % b)

RNorm(n, d) ==
  LET g == GCD(Abs(n), Abs(d))
      s == IF d < 0 THEN 0 - 1 ELSE 1
  IN [n |-> s * (n \div g), d |-> s * (d \div g)]

Rat(k) == [n |-> k, d |-> 1]
RAdd(a, b) == RNorm(a.n * b.d + b.n * a.d, a.d * b.d)
RSub(a, b) == RNorm(a.n * b.d - b.n * a.d, a.d * b.d)
RMul(a, b) == RNorm(a.n * b.n, a.d * b.d)
RDiv(a, b) == RNorm(a.n * b.d, a.d * b.n)

RECURSIVE SumRat(_, _)
SumRat(f, k) == IF k = 0 THEN Rat(0) ELSE RAdd(SumRat(f, k - 1), f[k])

RECURSIVE SumInt(_, _)
SumInt(f, k) == IF k = 0 THEN 0 ELSE SumInt(f, k - 1) + f[k]

(***************************************************************************)
(* Matrices: a sequence of rows of equal length; << >> is the empty        *)
(* matrix.  Flatten is the row-major linearisation of spec.md section 4.1. *)
(***************************************************************************)
NRow(m) == Len(m)
NCol(m) == IF Len(m) = 0 THEN 0 ELSE Len(m[1])
\* The first k entries of m in row-major order.
RECURSIVE FlattenTo(_, _)
FlattenTo(m, k) ==
  IF k = 0 THEN << >>
  ELSE Append(FlattenTo(m, k - 1),
              m[((k - 1) \div NCol(m)) + 1][((k - 1) % NCol(m)) + 1])
Flatten(m) == FlattenTo(m, NRow(m) * NCol(m))

(***************************************************************************)
(* Outcomes of the native routine: a finite value num/den, NaN, or a       *)
(* thrown error.                                                           *)
(***************************************************************************)
Value(r) == [tag |-> "value", num |-> r.n, den |-> r.d, err |-> ""]
NaNOut == [tag |-> "nan", num |-> 0, den |-> 0, err |-> ""]
ErrOut(e) == [tag |-> "error", num |-> 0, den |-> 0, err |-> e]
NoOutcome == [tag |-> "none", num |-> 0, den |-> 0, err |-> ""]

VARIABLES
  loaded,            \* the library is loaded and R_init_ICvectorfields has run
  registered,        \* the routines the host's .Call table holds
  useDynamicSymbols, \* whether the host may look symbols up dynamically
  pc,                \* per call site: idle, entered, invoked, returned
  mat1SEXP, r1SEXP,  \* per call site: the host objects passed to the entry point
  mat1, r1,          \* per call frame: the input_parameter locals
  callee,            \* per call site: the arguments MoransI received
  native,            \* per call frame: what MoransI returned or threw
  rcpp_result_gen,   \* per call frame: the result object
  retval,            \* per call site: the SEXP handed back to the caller
  raised,            \* per call site: the host error signalled to the caller
  ncalls,            \* per call site: invocations of MoransI in this call
  rngInternal,       \* the host's in-memory RNG state (0: none)
  randomSeed,        \* the host's .Random.seed (0: unset)
  degeneratePolicy   \* the routine's one policy for an undefined statistic

vars == <<loaded, registered, useDynamicSymbols, pc, mat1SEXP, r1SEXP, mat1,
          r1, callee, native, rcpp_result_gen, retval, raised, ncalls,
          rngInternal, randomSeed, degeneratePolicy>>

(***************************************************************************)
(* The native routine MoransI (spec.md section 4.1 and section 7).         *)
(***************************************************************************)
TooFew(values) == Len(Flatten(values)) < 2

BadShape(values, weights) ==
  ~(NRow(weights) = Len(Flatten(values)) /\ NCol(weights) = Len(Flatten(values)))

\* The statistic is undefined: zero variance or zero total weight.
Undefined(values, weights) ==
  \/ \A i, j \in 1..Len(Flatten(values)) :
       Flatten(values)[i] = Flatten(values)[j]
  \/ SumInt(Flatten(weights), Len(Flatten(weights))) = 0

\* Step 1: the mean of the flattened observations.
Mean(x) == RDiv(Rat(SumInt(x, Len(x))), Rat(Len(x)))
\* Step 2: the deviations from the mean.
RECURSIVE DeviationsTo(_, _, _)
DeviationsTo(x, mean, k) ==
  IF k = 0 THEN << >>
  ELSE Append(DeviationsTo(x, mean, k - 1), RSub(Rat(x[k]), mean))
Deviations(x) == LET mean == Mean(x) IN DeviationsTo(x, mean, Len(x))
\* Step 3: the sum of all weights.
S0(weights) == SumInt(Flatten(weights), Len(Flatten(weights)))
\* Step 4: N times the weighted sum of cross products.
Numerator(x, d, weights) ==
  LET N == Len(x)
      cross == [k \in 1..(N * N) |->
                  RMul(Rat(weights[((k - 1) \div N) + 1][((k - 1) % N) + 1]),
                       RMul(d[((k - 1) \div N) + 1], d[((k - 1) % N) + 1]))]
  IN RMul(Rat(N), SumRat(cross, N * N))
\* Step 5: S0 times the sum of squared deviations.
Denominator(x, d, weights) ==
  LET sq == [i \in 1..Len(x) |-> RMul(d[i], d[i])]
  IN RMul(Rat(S0(weights)), SumRat(sq, Len(x)))

\* The outcome for an undefined statistic: the routine's one policy.
DegenerateOutcome ==
  IF degeneratePolicy = "DomainError" THEN ErrOut("DomainError") ELSE NaNOut

\* The failures spec.md names for this input, one per condition it violates
\* (sections 4.1 and 7).  The spec fixes no order in which the conditions
\* are tested, so when several are violated each of them is an outcome.
Failures(values, weights) ==
  (IF TooFew(values) THEN {ErrOut("InsufficientDataError")} ELSE {})
    \cup (IF BadShape(values, weights)
          THEN {ErrOut("ShapeMismatchError")} ELSE {})
    \cup (IF Undefined(values, weights) THEN {DegenerateOutcome} ELSE {})

\* Steps 1 to 6, for an input that violates no condition.
MoransI(values, weights) ==
  LET x == Flatten(values)
      d == Deviations(x)
  IN Value(RDiv(Numerator(x, d, weights), Denominator(x, d, weights)))

\* What a call of the routine may give.
MoransIOutcomes(values, weights) ==
  IF Failures(values, weights) = {}
  THEN {MoransI(values, weights)}
  ELSE Failures(values, weights)

\* spec.md section 3 (both inputs are immutable) and section 4.1 (side
\* effects: none): the routine writes through neither handle and draws
\* nothing from the host's RNG.
NoSideEffects ==
  UNCHANGED <<mat1SEXP, r1SEXP, mat1, r1, rngInternal, randomSeed>>

(***************************************************************************)
(* Inputs the call sites draw from.                                        *)
(***************************************************************************)
MatricesOf(R, C, V) == [1..R -> [1..C -> V]]

\* The enumerated observation matrices: the empty matrix and every
\* single-row matrix of up to MaxN entries.
ObsMatrices ==
  {<< >>} \cup UNION {MatricesOf(1, C, ObsVals) : C \in 1..MaxN}

\* The enumerated weights matrices: the empty matrix and every matrix of up
\* to MaxN rows and MaxN columns, square or not.
WeightMatrices ==
  {<< >>} \cup UNION {MatricesOf(sh[1], sh[2], WeightVals) : sh \in (1..MaxN) \X (1..MaxN)}

\* spec.md section 8: values [[1,2],[3,4]] with the 4x4 rook-contiguity
\* weights (cells 1-2, 1-3, 2-4, 3-4 adjacent, zero diagonal).
GoldenValues == << <<1, 2>>, <<3, 4>> >>
RookWeights ==
  << <<0, 1, 1, 0>>,
     <<1, 0, 0, 1>>,
     <<1, 0, 0, 1>>,
     <<0, 1, 1, 0>> >>

\* Inputs beyond the enumerated ones: the golden scenario; a 2 x 2 matrix
\* with asymmetric 4 x 4 weights, and the same with weights of the wrong
\* shape; single-column matrices with 2 x 2 and with 1 x 2 weights; weights
\* with negative entries, one nonzero matrix whose sum S0 is zero and one
\* whose sum is negative.
ExtraInputs ==
  { <<GoldenValues, RookWeights>>,
    << << <<0, 3>>, <<1, 0>> >>,
       << <<0, 1, 0, 0>>, <<0, 0, 2, 0>>, <<1, 0, 0, 1>>, <<0, 0, 1, 0>> >> >>,
    << << <<0, 3>>, <<1, 0>> >>, << <<0, 1>>, <<1, 0>> >> >>,
    << << <<0>>, <<2>> >>, << <<1, 1>>, <<0, 1>> >> >>,
    << << <<0>>, <<2>> >>, << <<1, 1>> >> >>,
    << << <<0, 1>> >>, << <<0, 1>>, <<0 - 1, 0>> >> >>,
    << << <<2, 0>> >>, << <<0, 0 - 1>>, <<0 - 1, 1>> >> >> }

Inputs == (ObsMatrices \X WeightMatrices) \cup ExtraInputs

\* The inputs of the runs in which several call sites interleave: two valid
\* inputs with different results; a constant matrix; all-zero weights;
\* nonzero weights that sum to zero; weights of the wrong shape.  Each
\* violates at most one condition.
SiteInputs ==
  { << << <<0, 1>> >>, << <<0, 1>>, <<1, 0>> >> >>,
    << << <<0, 1>> >>, << <<1, 0>>, <<0, 1>> >> >>,
    << << <<1, 1>> >>, << <<0, 1>>, <<1, 0>> >> >>,
    << << <<0, 2>> >>, << <<0, 0>>, <<0, 0>> >> >>,
    << << <<0, 1>> >>, << <<0, 1>>, <<0 - 1, 0>> >> >>,
    << << <<0, 1>> >>, << <<1, 1>> >> >>,
    << << <<0>>, <<2>> >>, << <<1>> >> >> }

(***************************************************************************)
(* The registration table and the library initialiser (lines 26-34).       *)
(***************************************************************************)
CallEntries ==
  << [name |-> "_ICvectorfields_MoransI", nargs |-> 2],
     [name |-> "NULL", nargs |-> 0] >>

\* R_registerRoutines reads the table up to its NULL entry.
RegisteredRoutines(table) ==
  LET stop == CHOOSE k \in 1..Len(table) :
                /\ table[k].name = "NULL"
                /\ \A j \in 1..(k - 1) : table[j].name # "NULL"
  IN SubSeq(table, 1, stop - 1)

R_init_ICvectorfields ==
  /\ ~loaded
  /\ loaded' = TRUE
  /\ registered' = RegisteredRoutines(CallEntries)
  /\ useDynamicSymbols' = FALSE
  /\ UNCHANGED <<pc, mat1SEXP, r1SEXP, mat1, r1, callee, native,
                 rcpp_result_gen, retval, raised, ncalls, rngInternal,
                 randomSeed, degeneratePolicy>>

(***************************************************************************)
(* The entry point _ICvectorfields_MoransI (lines 15-24).                  *)
(***************************************************************************)
R_NilValue == [sexp |-> "NILSXP", tag |-> "nil", num |-> 0, den |-> 0]
NoSexp == [sexp |-> "none", tag |-> "none", num |-> 0, den |-> 0]

\* The locals of a call live in that call's own frame.
Frame(s) == s

\* Rcpp::RNGScope's constructor: enterRNGScope calls GetRNGstate, which
\* loads .Random.seed into the host's RNG state and, when .Random.seed is
\* unset, seeds that state from the clock.  Every scope does so, nested or
\* not; nothing in this library suspends the synchronisation.
EnterRNGScope ==
  IF randomSeed = 0
  THEN \E sd \in Seeds : rngInternal' = sd
  ELSE rngInternal' = randomSeed

\* Rcpp::RNGScope's destructor: exitRNGScope calls PutRNGstate, which
\* stores the host's RNG state in .Random.seed.
ExitRNGScope == randomSeed' = rngInternal

\* A variant in which the result is wrapped as an integer, truncated.
WrapAsInteger(out) ==
  [sexp |-> "INTSXP", tag |-> out.tag,
   num |-> IF out.tag # "value" THEN 0
           ELSE IF out.num >= 0 THEN out.num \div out.den
           ELSE 0 - ((0 - out.num) \div out.den),
   den |-> IF out.tag # "value" THEN 0 ELSE 1]

\* Rcpp::wrap of a double: a numeric vector of length one holding it.
Wrap(out) == [sexp |-> "REALSXP", tag |-> out.tag, num |-> out.num, den |-> out.den]

\* A variant in which the two arguments are passed in the other order.
ForwardArgsSwapped(m, r) == <<r, m>>

\* Line 21: the arguments MoransI is called with, in order.
ForwardArgs(m, r) == <<m, r>>

\* END_RCPP: the SEXP the entry point returns, and the host error it
\* signals, given the call frame f.
EndRcppReturn(f) ==
  IF native[f].tag = "error" THEN NoSexp ELSE rcpp_result_gen[f]
\* A variant in which the catch block drops the exception.
EndRcppRaiseSwallow(f) == ""
EndRcppRaise(f) ==
  IF native[f].tag = "error" THEN native[f].err ELSE ""

\* The host finds the routine in its table and checks the argument count.
Dispatchable(nargs) ==
  /\ loaded
  /\ \E i \in 1..Len(registered) :
       /\ registered[i].name = "_ICvectorfields_MoransI"
       /\ registered[i].nargs = nargs

\* Lines 15-20: dispatch, BEGIN_RCPP, construction of the locals.
EnterCall(s, a, b) ==
  /\ Dispatchable(Len(<<a, b>>))
  /\ pc[s] = "idle"
  /\ pc' = [pc EXCEPT ![s] = "entered"]
  /\ mat1SEXP' = [mat1SEXP EXCEPT ![s] = a]
  /\ r1SEXP' = [r1SEXP EXCEPT ![s] = b]
  /\ rcpp_result_gen' = [rcpp_result_gen EXCEPT ![Frame(s)] = R_NilValue]
  /\ EnterRNGScope
  /\ mat1' = [mat1 EXCEPT ![Frame(s)] = a]
  /\ r1' = [r1 EXCEPT ![Frame(s)] = b]
  /\ native' = [native EXCEPT ![Frame(s)] = NoOutcome]
  /\ callee' = [callee EXCEPT ![s] = << >>]
  /\ retval' = [retval EXCEPT ![s] = NoSexp]
  /\ raised' = [raised EXCEPT ![s] = ""]
  /\ ncalls' = [ncalls EXCEPT ![s] = 0]
  /\ UNCHANGED <<loaded, registered, useDynamicSymbols, randomSeed,
                 degeneratePolicy>>

\* Line 21: rcpp_result_gen = Rcpp::wrap(MoransI(mat1, r1)).
InvokeNative(s) ==
  /\ pc[s] = "entered"
  /\ \E args \in {ForwardArgs(mat1[Frame(s)], r1[Frame(s)])} :
       \E out \in MoransIOutcomes(args[1], args[2]) :
         /\ callee' = [callee EXCEPT ![s] = args]
         /\ native' = [native EXCEPT ![Frame(s)] = out]
         /\ rcpp_result_gen' =
              IF out.tag = "error"
              THEN rcpp_result_gen
              ELSE [rcpp_result_gen EXCEPT ![Frame(s)] = Wrap(out)]
  /\ NoSideEffects
  /\ ncalls' = [ncalls EXCEPT ![s] = ncalls[s] + 1]
  /\ pc' = [pc EXCEPT ![s] = "invoked"]
  /\ UNCHANGED <<loaded, registered, useDynamicSymbols, retval, raised,
                 degeneratePolicy>>

\* Lines 22-24: the locals are destroyed and END_RCPP hands the outcome to
\* the caller.
LeaveCall(s) ==
  /\ pc[s] = "invoked"
  /\ ExitRNGScope
  /\ retval' = [retval EXCEPT ![s] = EndRcppReturn(Frame(s))]
  /\ raised' = [raised EXCEPT ![s] = EndRcppRaise(Frame(s))]
  /\ pc' = [pc EXCEPT ![s] = "returned"]
  /\ UNCHANGED <<loaded, registered, useDynamicSymbols, mat1SEXP, r1SEXP,
                 mat1, r1, callee, native, rcpp_result_gen, ncalls,
                 rngInternal, degeneratePolicy>>

\* The caller takes the outcome and the call site is free to call again.
Resume(s) ==
  /\ pc[s] = "returned"
  /\ pc' = [pc EXCEPT ![s] = "idle"]
  /\ mat1SEXP' = [mat1SEXP EXCEPT ![s] = << >>]
  /\ r1SEXP' = [r1SEXP EXCEPT ![s] = << >>]
  /\ mat1' = [mat1 EXCEPT ![Frame(s)] = << >>]
  /\ r1' = [r1 EXCEPT ![Frame(s)] = << >>]
  /\ callee' = [callee EXCEPT ![s] = << >>]
  /\ native' = [native EXCEPT ![Frame(s)] = NoOutcome]
  /\ rcpp_result_gen' = [rcpp_result_gen EXCEPT ![Frame(s)] = R_NilValue]
  /\ retval' = [retval EXCEPT ![s] = NoSexp]
  /\ raised' = [raised EXCEPT ![s] = ""]
  /\ ncalls' = [ncalls EXCEPT ![s] = 0]
  /\ UNCHANGED <<loaded, registered, useDynamicSymbols, rngInternal,
                 randomSeed, degeneratePolicy>>

(***************************************************************************)
(* Initial states and specifications.                                      *)
(***************************************************************************)
InitCommon ==
  /\ loaded = FALSE
  /\ registered = << >>
  /\ useDynamicSymbols = TRUE
  /\ pc = [s \in Sites |-> "idle"]
  /\ mat1SEXP = [s \in Sites |-> << >>]
  /\ r1SEXP = [s \in Sites |-> << >>]
  /\ mat1 = [s \in Sites |-> << >>]
  /\ r1 = [s \in Sites |-> << >>]
  /\ callee = [s \in Sites |-> << >>]
  /\ native = [s \in Sites |-> NoOutcome]
  /\ rcpp_result_gen = [s \in Sites |-> R_NilValue]
  /\ retval = [s \in Sites |-> NoSexp]
  /\ raised = [s \in Sites |-> ""]
  /\ ncalls = [s \in Sites |-> 0]
  /\ degeneratePolicy \in {"DomainError", "NaN"}

\* A host session whose RNG has been seeded.
Init ==
  /\ InitCommon
  /\ randomSeed = 1
  /\ rngInternal = 1

\* One call of the entry point, on any input.
Next ==
  \/ R_init_ICvectorfields
  \/ pc[1] = "idle" /\ \E in \in Inputs : EnterCall(1, in[1], in[2])
  \/ InvokeNative(1)
  \/ LeaveCall(1)

Spec == Init /\ [][Next]_vars

\* A host session whose RNG may or may not have been seeded yet.
InitSites ==
  /\ InitCommon
  /\ randomSeed \in {0} \cup Seeds
  /\ rngInternal = randomSeed

\* Several call sites, each calling again and again; their steps interleave.
NextSites ==
  \/ R_init_ICvectorfields
  \/ \E s \in Sites :
       pc[s] = "idle" /\ \E in \in SiteInputs : EnterCall(s, in[1], in[2])
  \/ \E s \in Sites : InvokeNative(s)
  \/ \E s \in Sites : LeaveCall(s)
  \/ \E s \in Sites : Resume(s)

SpecSites == InitSites /\ [][NextSites]_vars

(***************************************************************************)
(* The properties.  The quantities below are computed from the arguments   *)
(* of the call alone, in integers: with N the number of observations,      *)
(* ScaledDev is N times the deviation d_i, so that the statistic is        *)
(* N * CrossSum / (WeightSum * SquareSum).                                 *)
(***************************************************************************)
Count(m) == NRow(m) * NCol(m)
At(m, k) == m[((k - 1) \div NCol(m)) + 1][((k - 1) % NCol(m)) + 1]
Total(m) == SumInt([k \in 1..Count(m) |-> At(m, k)], Count(m))
ScaledDev(m, i) == Count(m) * At(m, i) - Total(m)
SquareSum(m) ==
  SumInt([i \in 1..Count(m) |-> ScaledDev(m, i) * ScaledDev(m, i)], Count(m))
CrossSum(m, w) ==
  SumInt([i \in 1..Count(m) |->
            SumInt([j \in 1..Count(m) |->
                      w[i][j] * ScaledDev(m, i) * ScaledDev(m, j)], Count(m))],
         Count(m))
WeightSum(w) == Total(w)
ShapeOK(m, w) == NRow(w) = Count(m) /\ NCol(w) = Count(m)
AllEqual(m) == \A i, j \in 1..Count(m) : At(m, i) = At(m, j)
ValidInput(m, w) ==
  /\ Count(m) >= 2
  /\ ShapeOK(m, w)
  /\ WeightSum(w) # 0
  /\ SquareSum(m) # 0

ScaleMat(c, m) == [i \in 1..NRow(m) |-> [j \in 1..NCol(m) |-> c * m[i][j]]]
Perms(n) == {p \in [1..n -> 1..n] : \A i, j \in 1..n : p[i] = p[j] => i = j}
PermuteObs(p, m) ==
  [i \in 1..NRow(m) |-> [j \in 1..NCol(m) |-> At(m, p[(i - 1) * NCol(m) + j])]]
PermuteWeights(p, w) ==
  [i \in 1..NRow(w) |-> [j \in 1..NCol(w) |-> w[p[i]][p[j]]]]

Returned(s) == pc[s] = "returned"
\* The call at site s ended with the numeric scalar out, and no error.
ReturnedScalar(s, out) ==
  /\ raised[s] = ""
  /\ retval[s].tag = out.tag
  /\ retval[s].num = out.num
  /\ retval[s].den = out.den
\* The call at site s ended with error e, and no result.
Failed(s, e) == raised[s] = e /\ retval[s] = NoSexp

\* C1: for N >= 2 observations, N x N weights, S0 # 0 and a nonzero sum of
\* squared deviations, the call returns exactly
\* N * sum_ij w_ij d_i d_j / (S0 * sum_i d_i^2); for [[1,2],[3,4]] with the
\* rook weights that value is 0.
C1_ReturnsMoransFormula ==
  \A s \in Sites :
    (Returned(s) /\ ValidInput(mat1SEXP[s], r1SEXP[s])) =>
      /\ raised[s] = ""
      /\ retval[s].tag = "value"
      /\ retval[s].den > 0
      /\ retval[s].num * (WeightSum(r1SEXP[s]) * SquareSum(mat1SEXP[s]))
           = retval[s].den * (Count(mat1SEXP[s]) * CrossSum(mat1SEXP[s], r1SEXP[s]))
      /\ (mat1SEXP[s] = GoldenValues /\ r1SEXP[s] = RookWeights) =>
           (retval[s].num = 0 /\ retval[s].den = 1)

\* A valid call has returned a statistic that is not an integer.
C1_Witness ==
  \E s \in Sites :
    /\ Returned(s)
    /\ ValidInput(mat1SEXP[s], r1SEXP[s])
    /\ retval[s].tag = "value"
    /\ retval[s].den > 1

\* C5: for every valid input and every nonzero constant c, the call on
\* (x, w) returns what MoransI gives for (c*x, w).
C5_ScaleInvariant ==
  \A s \in Sites :
    (Returned(s) /\ ValidInput(mat1SEXP[s], r1SEXP[s])) =>
      \A c \in Scalars :
        LET scaled == MoransI(ScaleMat(c, mat1SEXP[s]), r1SEXP[s])
        IN scaled.tag = "value" /\ ReturnedScalar(s, scaled)

\* A valid call with a nonzero statistic has returned.
C5_Witness ==
  \E s \in Sites :
    /\ Returned(s)
    /\ ValidInput(mat1SEXP[s], r1SEXP[s])
    /\ retval[s].tag = "value"
    /\ retval[s].num # 0
    /\ \E c \in Scalars : c < 0

\* C6: for every valid input and every permutation p of the N units, the
\* call on (x, w) returns what MoransI gives for x and w permuted by p.
C6_PermutationInvariant ==
  \A s \in Sites :
    (Returned(s) /\ ValidInput(mat1SEXP[s], r1SEXP[s])) =>
      \A p \in Perms(Count(mat1SEXP[s])) :
        LET permuted == MoransI(PermuteObs(p, mat1SEXP[s]),
                                PermuteWeights(p, r1SEXP[s]))
        IN permuted.tag = "value" /\ ReturnedScalar(s, permuted)

\* A valid call has returned whose weights are not symmetric, so that some
\* permutation changes the weights matrix.
C6_Witness ==
  \E s \in Sites :
    /\ Returned(s)
    /\ ValidInput(mat1SEXP[s], r1SEXP[s])
    /\ retval[s].tag = "value"
    /\ retval[s].num # 0
    /\ \E p \in Perms(Count(mat1SEXP[s])) :
         PermuteWeights(p, r1SEXP[s]) # r1SEXP[s]

\* C7: a call leaves both matrices unchanged, changes no state
\* that outlives it, and calls with equal inputs give equal outcomes.
C7_PureFunction ==
  [][/\ \A s \in Sites :
          (pc[s] # "idle" /\ pc'[s] # "idle") =>
            (mat1SEXP'[s] = mat1SEXP[s] /\ r1SEXP'[s] = r1SEXP[s])
     /\ randomSeed' = randomSeed
     /\ rngInternal' = rngInternal
     /\ \A s, t \in Sites :
          (/\ pc'[s] = "returned" /\ pc'[t] = "returned"
           /\ mat1SEXP'[s] = mat1SEXP'[t] /\ r1SEXP'[s] = r1SEXP'[t]) =>
            (retval'[s] = retval'[t] /\ raised'[s] = raised'[t])]_vars

\* What a call on (a, b) may give when it runs alone.
AloneOutcomes(a, b) ==
  LET args == ForwardArgs(a, b)
  IN {[ret |-> IF out.tag = "error" THEN NoSexp ELSE Wrap(out),
       err |-> IF out.tag = "error" THEN out.err ELSE ""] :
        out \in MoransIOutcomes(args[1], args[2])}

\* C8: the entry point touches no shared mutable state, the RNG scope it
\* opens included, and under any interleaving each call gives the result it
\* gives when run alone.
C8_NoSharedMutableState ==
  [][/\ UNCHANGED <<rngInternal, randomSeed>>
     /\ \A s \in Sites :
          pc'[s] = "returned" =>
            [ret |-> retval'[s], err |-> raised'[s]]
              \in AloneOutcomes(mat1SEXP'[s], r1SEXP'[s])]_vars

\* C9: a failure of the native routine reaches the caller of the same call
\* as that error; the routine is invoked exactly once per call; a call ends
\* with exactly one of a numeric scalar and an error.
C9_ErrorSurfacesOnce ==
  \A s \in Sites :
    Returned(s) =>
      /\ ncalls[s] = 1
      /\ native[Frame(s)].tag = "error" => Failed(s, native[Frame(s)].err)
      /\ \/ (raised[s] = "" /\ retval[s].sexp = "REALSXP"
               /\ retval[s].tag \in {"value", "nan"})
         \/ (raised[s] # "" /\ retval[s] = NoSexp)

\* A call in which the native routine threw has ended.
C9_Witness ==
  \E s \in Sites :
    /\ Returned(s)
    /\ native[Frame(s)].tag = "error"
    /\ raised[s] = "ShapeMismatchError"
    /\ ncalls[s] = 1

\* C10: the entry point passes its first argument as the observation matrix
\* and its second as the weights, unmodified; on success it returns exactly
\* the scalar MoransI returned; the registration table exposes this entry
\* point alone, with the entry point's parameter count.
C10_ForwardsInOrder ==
  /\ \A s \in Sites :
       pc[s] \in {"invoked", "returned"} =>
         callee[s] = <<mat1SEXP[s], r1SEXP[s]>>
  /\ \A s \in Sites :
       (Returned(s) /\ native[Frame(s)].tag # "error") =>
         /\ retval[s].sexp = "REALSXP"
         /\ ReturnedScalar(s, native[Frame(s)])
  /\ loaded =>
       registered = << [name |-> "_ICvectorfields_MoransI", nargs |-> EntryArity] >>

\* A call whose two arguments differ has returned a scalar, through the
\* registered routine.
C10_Witness ==
  \E s \in Sites :
    /\ Returned(s)
    /\ loaded
    /\ Len(registered) = 1
    /\ mat1SEXP[s] # r1SEXP[s]
    /\ native[Frame(s)].tag = "value"
    /\ retval[s].tag = "value"

=============================================================================
